---- MODULE Spec2Model ----
(***************************************************************************)
(* Product catalog: the client-side text normalisation and filter/sort     *)
(* pipeline (frontend utils) and the Catalog API (POST /products,          *)
(* GET /products) with its use cases, repository, unit of work and the     *)
(* products table.                                                         *)
(*                                                                         *)
(* The specifications of the module:                                       *)
(*   SpecText      - normalizeText applied to bounded strings              *)
(*   SpecFilter    - filterProducts / sortProductsByPrice on bounded lists *)
(*   Spec          - the API serving concurrent requests against the store *)
(*   SpecFault     - one request handled under database faults             *)
(*   SpecUi        - the frontend service, the query and the create form   *)
(*   SpecHook      - the filter state of useProductFilters                 *)
(*   SpecContainer - the dependency injection container at start-up        *)
(***************************************************************************)
EXTENDS Integers, Sequences, FiniteSets, TLC

VARIABLES
    \* ---- normalizeText (SpecText)
    text,        \* the input string s
    text2,       \* a case/diacritic variant s' of s
    norm1,       \* normalizeText(text)
    norm2,       \* normalizeText(text2)
    renorm,      \* normalizeText(norm1)
    tphase,      \* "off" | "input" | "normalized" | "renormalized"
    \* ---- filter / sort (SpecFilter)
    heap,        \* array objects: reference -> sequence of products
    productsRef, \* reference of the caller's input array
    original,    \* contents of the input array when the call started
    filters,     \* ProductFilters: searchTerm, priceRange, isAscending
    resultRef,   \* reference returned by the call (0: none yet)
    fphase,      \* "off" | "input" | "filtered" | "sorted"
    \* ---- Catalog API (Spec)
    store,       \* committed rows of table products
    nextId,      \* ids the store has generated so far, plus one
    created,     \* the products answered with 201 so far
    clients,     \* per connection: the request being handled
    last,        \* the most recent HTTP exchange that was answered
    \* ---- one request under database faults (SpecFault)
    env,         \* process.env.NODE_ENV
    req,         \* the request being handled and how far its handler is
    transaction, \* the transaction SequelizeUnitOfWork.run works with
    resp,        \* the response sent for req
    \* ---- frontend service and create form (SpecUi)
    mockData,    \* the bundled static dataset product-mock.json
    apiReply,    \* how the last request of the frontend to the API ended
    fetched,     \* the promise getProducts returned
    formData,    \* Header: the fields of the create form
    isPopoverOpen, \* Header: the popover with the form is open
    notice,      \* what handleSubmit has just shown: alert and toast
    submitted,   \* the fields handleSubmit was called with, and its request
    apiStore,    \* the rows the API holds, in the order GET /products lists them
    requests,    \* the requests to the API the last run of the query made
    queryData,   \* the query cache under the key ['products', 'list']
    \* ---- dependency injection container (SpecContainer)
    cache,       \* the singletons the container has built so far
    resolutionStack, \* the registrations being resolved, innermost last
    resolved     \* per name: how container.resolve(name) ended last

textVars   == <<text, text2, norm1, norm2, renorm, tphase>>
filterVars == <<heap, productsRef, original, filters, resultRef, fphase>>
apiVars    == <<store, nextId, created, clients, last>>
faultVars  == <<env, req, transaction, resp>>
uiVars     == <<mockData, apiReply, fetched, formData, isPopoverOpen, notice, submitted,
                apiStore, requests, queryData>>
containerVars == <<cache, resolutionStack, resolved>>
vars       == <<text, text2, norm1, norm2, renorm, tphase,
                heap, productsRef, original, filters, resultRef, fphase,
                store, nextId, created, clients, last,
                env, req, transaction, resp,
                mockData, apiReply, fetched, formData, isPopoverOpen, notice, submitted,
                apiStore, requests, queryData,
                cache, resolutionStack, resolved>>

(***************************************************************************)
(* Bounds                                                                  *)
(***************************************************************************)
MaxTextLen == 3

MaxProducts == 3

MaxClients == 2

MaxListed == 2

MaxSimulated == 1

(***************************************************************************)
(* Characters.  A string is a sequence of characters; the alphabet has one *)
(* representative of each class normalizeText treats differently.          *)
(*   "a", "n"   lowercase ASCII letters                                    *)
(*   "A"        uppercase ASCII letter                                     *)
(*   "a_acute"  U+00E1, precomposed lowercase letter with diacritic        *)
(*   "A_acute"  U+00C1, precomposed uppercase letter with diacritic        *)
(*   "comb"     U+0301, combining acute accent                             *)
(*   "1"        digit                                                      *)
(*   " "        whitespace                                                 *)
(*   "-"        punctuation                                                *)
(***************************************************************************)
Char == {"a", "n", "A", "a_acute", "A_acute", "comb", "1", " ", "-"}

Whitespace == {" "}

CombiningMarks == {"comb"}

AsciiLowerOrDigit == {"a", "n", "1"}

Punctuation == {"-"}

RECURSIVE SeqsUpTo(_, _)
SeqsUpTo(S, n) ==
    IF n = 0 THEN {<<>>}
    ELSE LET shorter == SeqsUpTo(S, n - 1)
         IN  shorter \cup {Append(s, c) : s \in {t \in shorter : Len(t) = n - 1}, c \in S}

\* String.prototype.toLowerCase, per character
LowerChar(c) ==
    CASE c = "A"       -> <<"a">>
      [] c = "A_acute" -> <<"a_acute">>
      [] OTHER         -> <<c>>

RECURSIVE toLowerCase(_)
toLowerCase(s) ==
    IF s = <<>> THEN <<>> ELSE LowerChar(Head(s)) \o toLowerCase(Tail(s))

\* String.prototype.normalize('NFD'): canonical decomposition, per character
DecomposeChar(c) ==
    CASE c = "a_acute" -> <<"a", "comb">>
      [] c = "A_acute" -> <<"A", "comb">>
      [] OTHER         -> <<c>>

RECURSIVE NFD(_)
NFD(s) ==
    IF s = <<>> THEN <<>> ELSE DecomposeChar(Head(s)) \o NFD(Tail(s))

\* .replace(/[\u0300-\u036f]/g, '')
RemoveAccents(s) == SelectSeq(s, LAMBDA c : c \notin CombiningMarks)

\* .replace(/[^a-z0-9\s]/g, '')
RemoveSpecial(s) == SelectSeq(s, LAMBDA c : c \in AsciiLowerOrDigit \cup Whitespace)

RECURSIVE trimStart(_)
trimStart(s) ==
    IF s # <<>> /\ Head(s) \in Whitespace THEN trimStart(Tail(s)) ELSE s

RECURSIVE trimEnd(_)
trimEnd(s) ==
    IF s # <<>> /\ s[Len(s)] \in Whitespace
    THEN trimEnd(SubSeq(s, 1, Len(s) - 1))
    ELSE s

\* String.prototype.trim
trim(s) == trimEnd(trimStart(s))

\* A plausible slip: trimming before the characters are removed.
normalizeText_trimFirst(s) ==
    RemoveSpecial(RemoveAccents(NFD(toLowerCase(trim(s)))))

\* A plausible slip: the combining marks are removed before the string is
\* decomposed, so a precomposed accented letter loses its base letter.
normalizeText_noDecompose(s) ==
    trim(RemoveSpecial(RemoveAccents(toLowerCase(s))))

\* A plausible slip: the final trim is left out.
normalizeText_noTrim(s) ==
    RemoveSpecial(RemoveAccents(NFD(toLowerCase(s))))

normalizeText(s) ==
    trim(RemoveSpecial(RemoveAccents(NFD(toLowerCase(s)))))

(***************************************************************************)
(* SpecText: normalizeText on every string of at most MaxTextLen           *)
(* characters, and on the variants of it that differ in letter case or in  *)
(* diacritics.                                                             *)
(***************************************************************************)
Strings == SeqsUpTo(Char, MaxTextLen)

Letters == {"a", "n", "A", "a_acute", "A_acute"}

ReplaceAt(s, i, c) == [s EXCEPT ![i] = c]

InsertAfter(s, i, c) == SubSeq(s, 1, i) \o <<c>> \o SubSeq(s, i + 1, Len(s))

DeleteAt(s, i) == SubSeq(s, 1, i - 1) \o SubSeq(s, i + 1, Len(s))

\* The strings one edit away from s: the case of one letter changed, or a
\* diacritic added to or removed from one letter.
OneEdit(s) ==
    UNION {
        (IF s[i] = "a" THEN {ReplaceAt(s, i, "A"), ReplaceAt(s, i, "a_acute")} ELSE {})
        \cup (IF s[i] = "A" THEN {ReplaceAt(s, i, "a"), ReplaceAt(s, i, "A_acute")} ELSE {})
        \cup (IF s[i] = "a_acute" THEN {ReplaceAt(s, i, "A_acute"), ReplaceAt(s, i, "a")} ELSE {})
        \cup (IF s[i] = "A_acute" THEN {ReplaceAt(s, i, "a_acute"), ReplaceAt(s, i, "A")} ELSE {})
        \cup (IF s[i] \in Letters /\ Len(s) < MaxTextLen THEN {InsertAfter(s, i, "comb")} ELSE {})
        \cup (IF s[i] = "comb" /\ i > 1 /\ s[i - 1] \in Letters \cup CombiningMarks
              THEN {DeleteAt(s, i)} ELSE {})
        : i \in 1..Len(s) }

ApiIdle ==
    /\ store = {}
    /\ nextId = 1
    /\ created = {}
    /\ clients = <<>>
    /\ last = [method |-> "NONE"]

UiIdle ==
    /\ mockData = <<>>
    /\ apiReply = [kind |-> "off"]
    /\ fetched = [settled |-> "off"]
    /\ formData = [name |-> "", price |-> "", stock |-> ""]
    /\ isPopoverOpen = FALSE
    /\ notice = [alert |-> "", toast |-> ""]
    /\ submitted = [form |-> [name |-> "", price |-> "", stock |-> ""], request |-> "none"]
    /\ apiStore = <<>>
    /\ requests = 0
    /\ queryData = [defined |-> FALSE, value |-> <<>>]

ContainerIdle ==
    /\ cache = {}
    /\ resolutionStack = <<>>
    /\ resolved = <<>>

FaultIdle ==
    /\ env = "off"
    /\ req = [pc |-> "off"]
    /\ transaction = [state |-> "none"]
    /\ resp = [status |-> 0]

FilterIdle ==
    /\ heap = <<>>
    /\ productsRef = 0
    /\ original = <<>>
    /\ filters = [searchTerm |-> <<>>, priceRange |-> <<0, 0>>, isAscending |-> TRUE]
    /\ resultRef = 0
    /\ fphase = "off"

TextIdle ==
    /\ text = <<>>
    /\ text2 = <<>>
    /\ norm1 = <<>>
    /\ norm2 = <<>>
    /\ renorm = <<>>
    /\ tphase = "off"

TextInit ==
    /\ text \in Strings
    /\ text2 = text
    /\ norm1 = <<>>
    /\ norm2 = <<>>
    /\ renorm = <<>>
    /\ tphase = "input"
    /\ FilterIdle
    /\ ApiIdle
    /\ FaultIdle
    /\ UiIdle
    /\ ContainerIdle

\* the caller edits the variant: one letter's case or diacritic changes
Vary ==
    /\ tphase = "input"
    /\ \E t \in OneEdit(text2) : text2' = t
    /\ UNCHANGED <<text, norm1, norm2, renorm, tphase>>
    /\ UNCHANGED filterVars
    /\ UNCHANGED apiVars
    /\ UNCHANGED faultVars
    /\ UNCHANGED uiVars
    /\ UNCHANGED containerVars

Normalize ==
    /\ tphase = "input"
    /\ norm1' = normalizeText(text)
    /\ norm2' = normalizeText(text2)
    /\ tphase' = "normalized"
    /\ UNCHANGED <<text, text2, renorm>>
    /\ UNCHANGED filterVars
    /\ UNCHANGED apiVars
    /\ UNCHANGED faultVars
    /\ UNCHANGED uiVars
    /\ UNCHANGED containerVars

Renormalize ==
    /\ tphase = "normalized"
    /\ renorm' = normalizeText(norm1)
    /\ tphase' = "renormalized"
    /\ UNCHANGED <<text, text2, norm1, norm2>>
    /\ UNCHANGED filterVars
    /\ UNCHANGED apiVars
    /\ UNCHANGED faultVars
    /\ UNCHANGED uiVars
    /\ UNCHANGED containerVars

TextNext == Vary \/ Normalize \/ Renormalize

SpecText == TextInit /\ [][TextNext]_vars

(***************************************************************************)
(* Claims about normalizeText                                              *)
(***************************************************************************)

\* C2: normalizeText is idempotent: normalizing an already normalized string
\* gives that string back, for every input string.
C2_Idempotent ==
    tphase = "renormalized" => renorm = norm1

C2_Witness ==
    /\ tphase = "renormalized"
    /\ norm1 # text
    /\ norm1 # <<>>
    /\ renorm = norm1

IsAlnum(s) == \A i \in 1..Len(s) : s[i] \in AsciiLowerOrDigit

WithoutPunctuation(s) == SelectSeq(s, LAMBDA c : c \notin Punctuation)

WithoutPunctuationOrSpacing(s) ==
    SelectSeq(s, LAMBDA c : c \notin Punctuation \cup Whitespace)

\* C4 as stated: the result of normalizeText consists only of a-z and 0-9, and
\* a name normalizes to the same string as the name with its punctuation and
\* spacing taken out.
C4_OnlyAlphanumeric ==
    tphase \in {"normalized", "renormalized"} =>
        /\ IsAlnum(norm1)
        /\ normalizeText(WithoutPunctuationOrSpacing(text)) = norm1

\* C4 amended: the result of normalizeText consists only of a-z, 0-9 and
\* whitespace, with no whitespace at either end, and a name normalizes to the
\* same string as the name with its punctuation taken out (inner whitespace is
\* kept, so the search is punctuation-insensitive but not spacing-insensitive).
C4_AlphanumericOrSpace ==
    tphase \in {"normalized", "renormalized"} =>
        /\ \A i \in 1..Len(norm1) : norm1[i] \in AsciiLowerOrDigit \cup Whitespace
        /\ norm1 # <<>> => (norm1[1] \notin Whitespace /\ norm1[Len(norm1)] \notin Whitespace)
        /\ normalizeText(WithoutPunctuation(text)) = norm1

C4_Witness ==
    /\ tphase = "normalized"
    /\ text = <<"a", " ", "n">>
    /\ norm1 = <<"a", " ", "n">>

(***************************************************************************)
(* Filter / sort pipeline (frontend utils/productUtils.ts).                *)
(* Arrays are objects on a heap, so that "returns a new array" and         *)
(* "sorts in place" are different things: heap[r] is the contents of the   *)
(* array with reference r, and allocating appends to the heap.             *)
(***************************************************************************)

\* constants/filters.ts PRICE_RANGE
PRICE_RANGE_MIN == 15

PRICE_RANGE_MAX == 65

RECURSIVE startsWith(_, _)
startsWith(s, t) ==
    IF t = <<>> THEN TRUE
    ELSE IF s = <<>> THEN FALSE
    ELSE Head(s) = Head(t) /\ startsWith(Tail(s), Tail(t))

\* String.prototype.includes: scan the start positions left to right
RECURSIVE includes(_, _)
includes(s, t) ==
    IF startsWith(s, t) THEN TRUE
    ELSE IF s = <<>> THEN FALSE
    ELSE includes(Tail(s), t)

\* A plausible slip: || in place of &&.
matchesFilters_either(product, f) ==
    \/ includes(normalizeText(product.name), normalizeText(f.searchTerm))
    \/ (product.price >= f.priceRange[1] /\ product.price <= f.priceRange[2])

\* the predicate of products.filter(...)
matchesFilters(product, f) ==
    LET normalizedProductName == normalizeText(product.name)
        normalizedSearchTerm  == normalizeText(f.searchTerm)
        matchesSearch == includes(normalizedProductName, normalizedSearchTerm)
        matchesPrice  == product.price >= f.priceRange[1] /\ product.price <= f.priceRange[2]
    IN  matchesSearch /\ matchesPrice

Alloc(h, contents) == [heap |-> Append(h, contents), ref |-> Len(h) + 1]

\* Array.prototype.filter returns a new array
filterProducts(h, ref, f) ==
    Alloc(h, SelectSeq(h[ref], LAMBDA product : matchesFilters(product, f)))

\* the comparator handed to sort
comparePrice(a, b, isAscending) ==
    IF isAscending THEN a.price - b.price ELSE b.price - a.price

\* A plausible slip: an element that compares equal to one already placed is
\* taken for that element and left out.
RECURSIVE InsertSorted_dropTies(_, _, _)
InsertSorted_dropTies(s, x, isAscending) ==
    IF s = <<>> THEN <<x>>
    ELSE IF comparePrice(s[Len(s)], x, isAscending) = 0 THEN s
    ELSE IF comparePrice(s[Len(s)], x, isAscending) < 0 THEN Append(s, x)
    ELSE Append(InsertSorted_dropTies(SubSeq(s, 1, Len(s) - 1), x, isAscending), s[Len(s)])

\* Array.prototype.sort is stable: an element goes behind every element that
\* does not compare greater than it.
RECURSIVE InsertSorted(_, _, _)
InsertSorted(s, x, isAscending) ==
    IF s = <<>> THEN <<x>>
    ELSE IF comparePrice(s[Len(s)], x, isAscending) <= 0 THEN Append(s, x)
    ELSE Append(InsertSorted(SubSeq(s, 1, Len(s) - 1), x, isAscending), s[Len(s)])

RECURSIVE SortFrom(_, _, _)
SortFrom(done, rest, isAscending) ==
    IF rest = <<>> THEN done
    ELSE SortFrom(InsertSorted(done, Head(rest), isAscending), Tail(rest), isAscending)

\* Array.prototype.sort sorts the array it is called on, in place
sortInPlace(h, ref, isAscending) ==
    [heap |-> [h EXCEPT ![ref] = SortFrom(<<>>, h[ref], isAscending)], ref |-> ref]

\* A plausible slip: products.sort(...) without the spread copy.
sortProductsByPrice_inPlace(h, ref, isAscending) ==
    sortInPlace(h, ref, isAscending)

\* [...products].sort(...)
sortProductsByPrice(h, ref, isAscending) ==
    LET copy == Alloc(h, h[ref])
    IN  sortInPlace(copy.heap, copy.ref, isAscending)

filterAndSortProducts(h, ref, f) ==
    LET filtered == filterProducts(h, ref, f)
    IN  sortProductsByPrice(filtered.heap, filtered.ref, f.isAscending)

(***************************************************************************)
(* SpecFilter: the pipeline on every list of at most MaxProducts products  *)
(* of the pool and every filter state of FilterStates.                     *)
(***************************************************************************)
ProductPool ==
    { [id |-> 1, name |-> <<"A_acute", "n">>, price |-> 15],
      [id |-> 2, name |-> <<"a", "-", "n">>,  price |-> 40],
      [id |-> 3, name |-> <<"n", " ", "a">>,  price |-> 65],
      [id |-> 4, name |-> <<"1", "a">>,       price |-> 70],
      [id |-> 5, name |-> <<"n", "A">>,       price |-> 40] }

SearchTerms ==
    { <<>>, <<" ">>, <<"A">>, <<"a_acute", "n">>, <<"n", "a">>, <<"n", " ", "a">> }

SliderStops == {PRICE_RANGE_MIN, 40, PRICE_RANGE_MAX}

FilterStates ==
    { [searchTerm |-> t, priceRange |-> <<lo, hi>>, isAscending |-> asc] :
        t \in SearchTerms,
        lo \in SliderStops, hi \in SliderStops,
        asc \in BOOLEAN }

FilterInit ==
    /\ \E list \in SeqsUpTo(ProductPool, MaxProducts) :
          /\ heap = <<list>>
          /\ original = list
    /\ productsRef = 1
    /\ filters \in {f \in FilterStates : f.priceRange[1] <= f.priceRange[2]}
    /\ resultRef = 0
    /\ fphase = "input"
    /\ TextIdle
    /\ ApiIdle
    /\ FaultIdle
    /\ UiIdle
    /\ ContainerIdle

CallFilterAndSort ==
    /\ fphase = "input"
    /\ LET r == filterAndSortProducts(heap, productsRef, filters)
       IN  /\ heap' = r.heap
           /\ resultRef' = r.ref
    /\ fphase' = "filtered"
    /\ UNCHANGED <<productsRef, original, filters>>
    /\ UNCHANGED textVars
    /\ UNCHANGED apiVars
    /\ UNCHANGED faultVars
    /\ UNCHANGED uiVars
    /\ UNCHANGED containerVars

CallSort ==
    /\ fphase = "input"
    /\ LET r == sortProductsByPrice(heap, productsRef, filters.isAscending)
       IN  /\ heap' = r.heap
           /\ resultRef' = r.ref
    /\ fphase' = "sorted"
    /\ UNCHANGED <<productsRef, original, filters>>
    /\ UNCHANGED textVars
    /\ UNCHANGED apiVars
    /\ UNCHANGED faultVars
    /\ UNCHANGED uiVars
    /\ UNCHANGED containerVars

FilterNext == CallFilterAndSort \/ CallSort

SpecFilter == FilterInit /\ [][FilterNext]_vars

(***************************************************************************)
(* Claims about the filter / sort pipeline                                 *)
(***************************************************************************)
IsSubstringOf(t, s) ==
    \E i \in 0..(Len(s) - Len(t)) : SubSeq(s, i + 1, i + Len(t)) = t

\* C1: every product returned by filterAndSortProducts has a normalized name
\* that contains the normalized search term and a price within the inclusive
\* range, and the output is ordered by price, non-decreasing when isAscending
\* and non-increasing otherwise.
C1_FilteredAndSorted ==
    fphase = "filtered" =>
        LET out == heap[resultRef]
        IN  /\ \A i \in 1..Len(out) :
                  /\ IsSubstringOf(normalizeText(filters.searchTerm), normalizeText(out[i].name))
                  /\ filters.priceRange[1] <= out[i].price
                  /\ out[i].price <= filters.priceRange[2]
            /\ \A i \in 1..(Len(out) - 1) :
                  IF filters.isAscending
                  THEN out[i].price <= out[i + 1].price
                  ELSE out[i].price >= out[i + 1].price

C1_Witness ==
    /\ fphase = "filtered"
    /\ Len(original) = 3
    /\ Len(heap[resultRef]) = 2
    /\ heap[resultRef][1].price > heap[resultRef][2].price
    /\ filters.searchTerm = <<"a_acute", "n">>
    /\ heap[resultRef][2].name = <<"A_acute", "n">>

\* C5: sortProductsByPrice, and so filterAndSortProducts, never mutates its
\* input: after the call the input array holds the same elements in the same
\* order as before.
C5_InputNotMutated ==
    fphase \in {"filtered", "sorted"} => heap[productsRef] = original

C5_Witness ==
    /\ fphase = "sorted"
    /\ resultRef # productsRef
    /\ heap[resultRef] # original
    /\ heap[productsRef] = original

Occurrences(s, p) == Cardinality({i \in 1..Len(s) : s[i] = p})

\* C22: filterAndSortProducts returns a permutation of exactly the matching
\* products: every input product that matches the search term and the price
\* range occurs in the output as often as in the input, and nothing else
\* occurs in it.
C22_PermutationOfMatching ==
    fphase = "filtered" =>
        LET out == heap[resultRef]
            matching(p) ==
                /\ IsSubstringOf(normalizeText(filters.searchTerm), normalizeText(p.name))
                /\ filters.priceRange[1] <= p.price
                /\ p.price <= filters.priceRange[2]
        IN  /\ \A i \in 1..Len(out) : \E j \in 1..Len(original) : out[i] = original[j]
            /\ \A j \in 1..Len(original) :
                  Occurrences(out, original[j]) =
                      IF matching(original[j]) THEN Occurrences(original, original[j]) ELSE 0

\* one matching product listed twice, another of the same price, and one that
\* does not match
C22_Witness ==
    /\ fphase = "filtered"
    /\ Len(original) = 3
    /\ Occurrences(original, [id |-> 2, name |-> <<"a", "-", "n">>, price |-> 40]) = 2
    /\ Occurrences(original, [id |-> 4, name |-> <<"1", "a">>, price |-> 70]) = 1
    /\ Len(heap[resultRef]) = 2
    /\ heap[resultRef][1] = heap[resultRef][2]

(***************************************************************************)
(* Catalog API.                                                            *)
(*                                                                         *)
(* JSON values of a request body are tagged: undefined (the field is       *)
(* absent), a string (a sequence of characters) or a number.  A price is   *)
(* counted in thousandths (9990 is 9.99, 1 is 0.001) and a stock in halves *)
(* (20 is 10 units, 1 is 0.5), so that rounding to two decimals and        *)
(* Number.isInteger have something to decide.                              *)
(***************************************************************************)
Undef == [t |-> "undefined"]

Str(s) == [t |-> "string", v |-> s]

Num(n) == [t |-> "number", v |-> n]

\* !x
Falsy(x) ==
    \/ x.t = "undefined"
    \/ (x.t = "string" /\ x.v = <<>>)
    \/ (x.t = "number" /\ x.v = 0)

\* Number.isInteger on a number counted in halves
IsInteger(halves) == halves % 2 = 0

\* Number(price.toFixed(2)) on a number counted in thousandths
toFixed2(thousandths) == ((thousandths + 5) \div 10) * 10

\* STRING(255), name.length > 255
MaxNameLength == 255

\* ---- Shared/Result.js, Shared/AppError.js
ok(value) == [isFailure |-> FALSE, value |-> value]

fail(code, httpCode) == [isFailure |-> TRUE, error |-> [code |-> code, httpCode |-> httpCode]]

\* ---- Domain/Products/Entities/Product.js
\* A plausible slip: the constructor checks the types but not the ranges.
ProductThrows_noRangeChecks(data) ==
    \/ Falsy(data.name) \/ Falsy(data.price) \/ data.stock.t = "undefined"
    \/ data.name.t # "string"
    \/ data.price.t # "number"
    \/ data.stock.t # "number"
    \/ Len(trim(data.name.v)) = 0
    \/ Len(data.name.v) > MaxNameLength

\* TRUE when the constructor throws
ProductThrows(data) ==
    \/ Falsy(data.name) \/ Falsy(data.price) \/ data.stock.t = "undefined"
    \/ data.name.t # "string"
    \/ data.price.t # "number" \/ data.price.v <= 0
    \/ data.stock.t # "number" \/ data.stock.v < 0 \/ ~IsInteger(data.stock.v)
    \/ Len(trim(data.name.v)) = 0
    \/ Len(data.name.v) > MaxNameLength

\* the frozen entity the constructor builds
Product(id, data) ==
    [id |-> id, name |-> trim(data.name.v), price |-> toFixed2(data.price.v), stock |-> data.stock.v]

\* ---- Infraestructure/Products/Models/ProductModel.js
\* the model's validate rules, run by ProductModel.create before the INSERT
ModelValidationFails(entity) ==
    \/ Len(entity.name) = 0 \/ Len(entity.name) > MaxNameLength
    \/ entity.price < 10
    \/ entity.stock < 0 \/ ~IsInteger(entity.stock)

\* A table without the unique index on name.
UniqueConflict_none(name, rows) == FALSE

\* unique: products_name_unique: a row with this name is among rows
UniqueConflict(name, rows) == \E r \in rows : r.name = name

\* ---- SequelizeProductRepository
\* A plausible slip: the name is looked up as given.
findByName_noTrim(name, rows) ==
    IF name.t # "string" THEN [threw |-> TRUE, found |-> FALSE]
    ELSE [threw |-> FALSE, found |-> \E r \in rows : r.name = name.v]

\* findOne({ where: { name: name.trim() } }); name.trim() throws a TypeError
\* for a value that is no string, which the catch wraps in an Error
findByName(name, rows) ==
    IF name.t # "string" THEN [threw |-> TRUE, found |-> FALSE]
    ELSE [threw |-> FALSE, found |-> \E r \in rows : r.name = trim(name.v)]

CharRank(c) == CASE c = " " -> 1 [] c = "v" -> 2 [] c = "w" -> 3 [] OTHER -> 4

RECURSIVE NameLeq(_, _)
NameLeq(a, b) ==
    IF a = <<>> THEN TRUE
    ELSE IF b = <<>> THEN FALSE
    ELSE IF Head(a) = Head(b) THEN NameLeq(Tail(a), Tail(b))
    ELSE CharRank(Head(a)) < CharRank(Head(b))

\* A plausible slip: order: [['name', 'DESC']].
RECURSIVE OrderByName_desc(_)
OrderByName_desc(rows) ==
    IF rows = {} THEN <<>>
    ELSE LET first == CHOOSE r \in rows : \A q \in rows : NameLeq(q.name, r.name)
         IN  <<first>> \o OrderByName_desc(rows \ {first})

\* findAll({ order: [['name', 'ASC']] })
RECURSIVE OrderByName(_)
OrderByName(rows) ==
    IF rows = {} THEN <<>>
    ELSE LET first == CHOOSE r \in rows : \A q \in rows : NameLeq(r.name, q.name)
         IN  <<first>> \o OrderByName(rows \ {first})

\* A plausible slip: a LIMIT 1 left in the query.
getAll_limitOne(rows) ==
    IF rows = {} THEN <<>> ELSE <<OrderByName(rows)[1]>>

\* rows.map(row => this.#toDomain(row))
getAll(rows) == OrderByName(rows)

\* ---- Application/Products/UseCases/GetProductUseCase.js
\* A plausible slip: the empty list is returned as a success.
GetProductExecute_noEmptyCheck(rows) == ok(getAll(rows))

GetProductExecute(rows) ==
    LET products == getAll(rows)
    IN  IF Len(products) = 0 THEN fail("PRODUCT_NOT_FOUND", 404) ELSE ok(products)

\* ---- Errors.  An error has a name, a message and, for an AppError, a code
\* and an httpCode ("" and 0 stand for a property the error does not have).
\* A message is a sequence of words; the fixed texts of the code are one word
\* each, the text of a database error is spelled out word by word.
Error(message) ==
    [name |-> "Error", code |-> "", httpCode |-> 0, message |-> message]

AppError(code, message, httpCode) ==
    [name |-> "AppError", code |-> code, httpCode |-> httpCode, message |-> message]

\* an error of the database driver, as Sequelize raises it
SequelizeError(name, message) ==
    [name |-> name, code |-> "", httpCode |-> 0, message |-> message]

\* fail(new AppError(...)), the message kept
failError(error) == [isFailure |-> TRUE, error |-> error]

\* ---- Shared/errorHandler.js globalErrorHandler
\* the words of sensitivePatterns
SensitiveTerms == {"password", "token", "secret", "key", "connection", "database"}

\* what the flag i of a pattern ignores
toLowerCaseWord(w) ==
    CASE w = "Connection" -> "connection"
      [] w = "Password"   -> "password"
      [] OTHER            -> w

\* sensitivePatterns.some(pattern => pattern.test(err.message))
isSensitive(message) ==
    \E i \in 1..Len(message) : toLowerCaseWord(message[i]) \in SensitiveTerms

GenericMessage == <<"Error interno del servidor">>

\* switch (err.name)
StatusOfName(name) ==
    CASE name \in {"ValidationError", "SequelizeValidationError"} -> 400
      [] name = "UnauthorizedError" -> 401
      [] name = "ForbiddenError" -> 403
      [] name = "NotFoundError" -> 404
      [] name \in {"ConflictError", "SequelizeUniqueConstraintError"} -> 409
      [] OTHER -> 500

\* err.name.replace(/Error$/, '').toUpperCase(), for the names that occur
CodeOfName(name) ==
    CASE name = "Error" -> ""
      [] name = "TypeError" -> "TYPE"
      [] name = "AppError" -> "APP"
      [] name = "SequelizeDatabaseError" -> "SEQUELIZEDATABASE"
      [] name = "SequelizeConnectionError" -> "SEQUELIZECONNECTION"
      [] name = "SequelizeTimeoutError" -> "SEQUELIZETIMEOUT"

\* A plausible slip: the error's name is sent as it is.
globalErrorHandler_rawName(err, nodeEnv) ==
    [status  |-> IF err.httpCode # 0 THEN err.httpCode ELSE StatusOfName(err.name),
     code    |-> IF err.code # "" THEN err.code ELSE err.name,
     message |-> IF err.message # <<>> /\ ~(nodeEnv = "production" /\ isSensitive(err.message))
                 THEN err.message ELSE GenericMessage,
     value   |-> <<>>]

\* the response globalErrorHandler sends for err
globalErrorHandler(err, nodeEnv) ==
    LET statusCode ==
            IF err.httpCode # 0 THEN err.httpCode
            ELSE IF err.name # "" THEN StatusOfName(err.name)
            ELSE 500
        errorCode ==
            IF err.code # "" THEN err.code
            ELSE IF err.name # "" THEN CodeOfName(err.name)
            ELSE "INTERNAL_ERROR"
        errorMessage ==
            IF err.message # <<>>
            THEN IF nodeEnv = "production"
                 THEN IF isSensitive(err.message) THEN GenericMessage ELSE err.message
                 ELSE err.message
            ELSE GenericMessage
    IN  [status |-> statusCode, code |-> errorCode, message |-> errorMessage, value |-> <<>>]

\* the status, code and body of that response, for an error that carries
\* neither httpCode nor code
GlobalErrorResponse(errName) ==
    LET r == globalErrorHandler(SequelizeError(errName, <<>>), "production")
    IN  [status |-> r.status, code |-> r.code, value |-> r.value]

\* ---- Routes: router.post('/') and router.get('/')
\* A plausible slip: only the name is checked.
MissingFields_nameOnly(body) == Falsy(body.name)

MissingFields(body) ==
    Falsy(body.name) \/ body.price.t = "undefined" \/ body.stock.t = "undefined"

PostResponse(result) ==
    IF result.isFailure
    THEN [status |-> result.error.httpCode, code |-> result.error.code, value |-> <<>>]
    ELSE [status |-> 201, code |-> "", value |-> <<result.value>>]

GetResponse(result) ==
    IF result.isFailure
    THEN [status |-> IF result.error.code = "PRODUCT_NOT_FOUND" THEN 404 ELSE result.error.httpCode,
          code |-> result.error.code, value |-> <<>>]
    ELSE [status |-> 200, code |-> "", value |-> result.value]

(***************************************************************************)
(* Spec: MaxClients connections send requests that the server handles      *)
(* concurrently.  A handler is split where it touches the table:           *)
(*   PostReceive  router check, uow.run opens the transaction, findByName, *)
(*                new Product(...)                                         *)
(*   PostInsert   productRepository.create (validate, INSERT)              *)
(*   PostCommit   transaction.commit and the 201 response                  *)
(*   Get          the whole GET handler (one read of the table)            *)
(* The steps of a handler between two accesses to the table are local, so  *)
(* running them together with the access loses no interleaving.  The table *)
(* is read at READ COMMITTED: a transaction sees committed rows, an INSERT *)
(* waits while another open transaction holds an uncommitted row with the  *)
(* same unique key.                                                        *)
(***************************************************************************)
NameInputs ==
    { Undef, Str(<<>>), Str(<<" ">>), Str(<<"w">>), Str(<<" ", "w", " ">>), Str(<<"v">>), Num(7) }

PriceInputs == { Undef, Num(-1000), Num(0), Num(1), Num(9990) }

StockInputs == { Undef, Num(-4), Num(1), Num(20) }

\* request bodies: every name with every price and every stock, the other of
\* the two being a valid one
Bodies ==
    { b \in [name : NameInputs, price : PriceInputs, stock : StockInputs] :
        b.price = Num(9990) \/ b.stock = Num(20) }

Clients == 1..MaxClients

Idle == [pc |-> "idle"]

Init ==
    /\ store = {}
    /\ nextId = 1
    /\ created = {}
    /\ clients = [c \in Clients |-> Idle]
    /\ last = [method |-> "NONE"]
    /\ TextIdle
    /\ FilterIdle
    /\ FaultIdle
    /\ UiIdle
    /\ ContainerIdle

\* rows inserted by open transactions of the other connections
PendingOfOthers(c) ==
    { clients[d].row : d \in {e \in Clients : e # c /\ clients[e].pc = "inserted"} }

\* the response leaves the server.  before: the committed rows when the
\* request read the table; answeredBefore: the products answered 201 by then
Answer(c, method, body, before, answeredBefore, response, tx, insertCalled, wrote) ==
    last' = [method |-> method, body |-> body, before |-> before,
             answeredBefore |-> answeredBefore,
             status |-> response.status, code |-> response.code, value |-> response.value,
             tx |-> tx, insertCalled |-> insertCalled, wrote |-> wrote]

PostReceive(c, body) ==
    /\ clients[c].pc = "idle"
    /\ IF MissingFields(body)
       THEN /\ Answer(c, "POST", body, store, created,
                      [status |-> 400, code |-> "MISSING_FIELDS", value |-> <<>>],
                      "none", FALSE, {})
            /\ UNCHANGED clients
       ELSE LET existing == findByName(body.name, store)
            IN  IF existing.threw
                THEN /\ Answer(c, "POST", body, store, created, GlobalErrorResponse("Error"),
                               "rolledback", FALSE, {})
                     /\ UNCHANGED clients
                ELSE IF existing.found
                THEN /\ Answer(c, "POST", body, store, created,
                               PostResponse(fail("PRODUCT_ALREADY_EXISTS", 400)),
                               "committed", FALSE, {})
                     /\ UNCHANGED clients
                ELSE IF ProductThrows(body)
                THEN /\ Answer(c, "POST", body, store, created,
                               PostResponse(fail("VALIDATION_ERROR", 400)),
                               "committed", FALSE, {})
                     /\ UNCHANGED clients
                ELSE /\ clients' = [clients EXCEPT ![c] =
                            [pc |-> "validated", body |-> body, before |-> store,
                             answeredBefore |-> created,
                             entity |-> Product(0, body)]]
                     /\ UNCHANGED last
    /\ UNCHANGED <<store, nextId, created>>
    /\ UNCHANGED textVars
    /\ UNCHANGED filterVars
    /\ UNCHANGED faultVars
    /\ UNCHANGED uiVars
    /\ UNCHANGED containerVars

PostInsert(c) ==
    /\ clients[c].pc = "validated"
    /\ LET me == clients[c]
       IN  IF ModelValidationFails(me.entity)
           THEN /\ Answer(c, "POST", me.body, me.before, me.answeredBefore,
                          PostResponse(fail("VALIDATION_ERROR", 400)),
                          "committed", TRUE, {})
                /\ clients' = [clients EXCEPT ![c] = Idle]
                /\ UNCHANGED nextId
           ELSE /\ ~UniqueConflict(me.entity.name, PendingOfOthers(c))
                /\ IF UniqueConflict(me.entity.name, store)
                   THEN /\ Answer(c, "POST", me.body, me.before, me.answeredBefore,
                                  PostResponse(fail("VALIDATION_ERROR", 400)),
                                  "committed", TRUE, {})
                        /\ clients' = [clients EXCEPT ![c] = Idle]
                        /\ UNCHANGED nextId
                   ELSE /\ clients' = [clients EXCEPT ![c] =
                               [pc |-> "inserted", body |-> me.body, before |-> me.before,
                                answeredBefore |-> me.answeredBefore,
                                row |-> [me.entity EXCEPT !.id = nextId]]]
                        /\ nextId' = nextId + 1
                        /\ UNCHANGED last
    /\ UNCHANGED <<store, created>>
    /\ UNCHANGED textVars
    /\ UNCHANGED filterVars
    /\ UNCHANGED faultVars
    /\ UNCHANGED uiVars
    /\ UNCHANGED containerVars

PostCommit(c) ==
    /\ clients[c].pc = "inserted"
    /\ LET me == clients[c]
       IN  /\ store' = store \cup {me.row}
           /\ Answer(c, "POST", me.body, me.before, me.answeredBefore, PostResponse(ok(me.row)),
                     "committed", TRUE, {me.row})
    /\ created' = created \cup {clients[c].row}
    /\ clients' = [clients EXCEPT ![c] = Idle]
    /\ UNCHANGED nextId
    /\ UNCHANGED textVars
    /\ UNCHANGED filterVars
    /\ UNCHANGED faultVars
    /\ UNCHANGED uiVars
    /\ UNCHANGED containerVars

Get(c) ==
    /\ clients[c].pc = "idle"
    /\ Answer(c, "GET", Undef, store, created, GetResponse(GetProductExecute(store)),
              "committed", FALSE, {})
    /\ UNCHANGED <<store, nextId, created, clients>>
    /\ UNCHANGED textVars
    /\ UNCHANGED filterVars
    /\ UNCHANGED faultVars
    /\ UNCHANGED uiVars
    /\ UNCHANGED containerVars

Next ==
    \E c \in Clients :
        \/ \E body \in Bodies : PostReceive(c, body)
        \/ PostInsert(c)
        \/ PostCommit(c)
        \/ Get(c)

Spec == Init /\ [][Next]_vars

(***************************************************************************)
(* SpecFault: requests handled one at a time, while every access to the    *)
(* database may fail.  The handler is followed through                     *)
(* SequelizeUnitOfWork.run: sequelize.transaction(), the function of the   *)
(* use case, transaction.commit() and, in the catch, transaction.rollback()*)
(* before the error is thrown again; what leaves run goes to the router or,*)
(* when it is thrown, through errorAsync to globalErrorHandler.            *)
(***************************************************************************)
NodeEnvs == {"production", "development", "test"}

\* the errors a failing database access raises
DbFaults ==
    { SequelizeError("SequelizeDatabaseError", <<"deadlock", "detected">>),
      SequelizeError("SequelizeConnectionError", <<"Connection", "terminated", "unexpectedly">>) }

\* req: pc is where the handler is ("idle", "begin", "fn", "create", "commit",
\* "catch", "done"); before is the table when the request came in; raised is
\* the calls that threw while it was handled; fn tells whether the function
\* given to run returned or threw; error is the error caught in run, thrown
\* the error that left run
NoError == [name |-> "", code |-> "", httpCode |-> 0, message |-> <<>>]

NoResult == [isFailure |-> FALSE, value |-> <<>>]

NoRequest ==
    [pc |-> "idle", method |-> "NONE", body |-> Undef, before |-> {}, raised |-> {},
     entity |-> <<>>, result |-> NoResult, fn |-> "none", error |-> NoError,
     thrown |-> NoError]

NoTransaction ==
    [state |-> "none", begins |-> 0, commits |-> 0, rollbacks |-> 0, pending |-> {}]

NoResponse == [status |-> 0, code |-> "", message |-> <<>>, value |-> <<>>, via |-> "none"]

\* the message of the Error the Product constructor throws
ProductErrorMessage(data) ==
    IF Falsy(data.name) \/ Falsy(data.price) \/ data.stock.t = "undefined"
    THEN <<"Product: Todos los campos son requeridos (name, price, stock)">>
    ELSE IF data.name.t # "string"
    THEN <<"Product: El nombre debe ser una cadena de texto">>
    ELSE IF data.price.t # "number" \/ data.price.v <= 0
    THEN <<"Product: El precio debe ser un numero mayor a 0">>
    ELSE IF data.stock.t # "number" \/ data.stock.v < 0 \/ ~IsInteger(data.stock.v)
    THEN <<"Product: El stock debe ser un numero entero mayor o igual a 0">>
    ELSE IF Len(trim(data.name.v)) = 0
    THEN <<"Product: El nombre no puede estar vacio">>
    ELSE <<"Product: El nombre no puede exceder 255 caracteres">>

\* res.status(...).json({ code, message }) of the router, res.json(value)
RouterResponse(response, result) ==
    [status |-> response.status, code |-> response.code,
     message |-> IF result.isFailure THEN result.error.message ELSE <<>>,
     value |-> response.value, via |-> "router"]

\* next(err): the response of globalErrorHandler
HandlerResponse(err, nodeEnv) ==
    LET r == globalErrorHandler(err, nodeEnv)
    IN  [status |-> r.status, code |-> r.code, message |-> r.message,
         value |-> r.value, via |-> "globalErrorHandler"]

FaultInit ==
    /\ env \in NodeEnvs
    /\ req = NoRequest
    /\ transaction = NoTransaction
    /\ resp = NoResponse
    /\ ApiIdle
    /\ TextIdle
    /\ FilterIdle
    /\ UiIdle
    /\ ContainerIdle

\* the router receives a request; POST checks that the fields are present
Receive(method, body) ==
    /\ req.pc \in {"idle", "done"}
    /\ transaction' = NoTransaction
    /\ IF method = "POST" /\ MissingFields(body)
       THEN /\ req' = [NoRequest EXCEPT !.pc = "done", !.method = method, !.body = body,
                                         !.before = store]
            /\ resp' = [status |-> 400, code |-> "MISSING_FIELDS",
                        message |-> <<"Los campos name, price y stock son requeridos">>,
                        value |-> <<>>, via |-> "router"]
       ELSE /\ req' = [NoRequest EXCEPT !.pc = "begin", !.method = method, !.body = body,
                                         !.before = store]
            /\ resp' = NoResponse
    /\ UNCHANGED <<env, apiVars>>
    /\ UNCHANGED textVars
    /\ UNCHANGED filterVars
    /\ UNCHANGED uiVars
    /\ UNCHANGED containerVars

\* const transaction = await this.sequelize.transaction(): outside the try,
\* so an error of it leaves run at once
TxBegin ==
    /\ req.pc = "begin"
    /\ \/ /\ transaction' = [NoTransaction EXCEPT !.state = "open", !.begins = 1]
          /\ req' = [req EXCEPT !.pc = "fn"]
          /\ UNCHANGED resp
       \/ \E e \in DbFaults :
             /\ transaction' = [NoTransaction EXCEPT !.begins = 1]
             /\ req' = [req EXCEPT !.pc = "done", !.error = e, !.thrown = e,
                                   !.raised = @ \cup {"transaction"}]
             /\ resp' = HandlerResponse(e, env)
    /\ UNCHANGED <<env, apiVars>>
    /\ UNCHANGED textVars
    /\ UNCHANGED filterVars
    /\ UNCHANGED uiVars
    /\ UNCHANGED containerVars

\* CreateProductUseCase: findByName, the existence check, new Product(...)
FnFindByName ==
    /\ req.pc = "fn"
    /\ req.method = "POST"
    /\ \/ \E e \in DbFaults :
             req' = [req EXCEPT !.pc = "catch", !.fn = "threw",
                                !.error = Error(<<"Error buscando producto por nombre:">> \o e.message),
                                !.raised = @ \cup {"findByName"}]
       \/ LET existing == findByName(req.body.name, store)
          IN  IF existing.threw
              THEN req' = [req EXCEPT !.pc = "catch", !.fn = "threw",
                                      !.error = Error(<<"Error buscando producto por nombre:",
                                                        "name.trim is not a function">>),
                                      !.raised = @ \cup {"findByName"}]
              ELSE IF existing.found
              THEN req' = [req EXCEPT !.pc = "commit", !.fn = "returned",
                                      !.result = failError(AppError("PRODUCT_ALREADY_EXISTS",
                                          <<"Ya existe un producto con el nombre", "<name>">>, 400))]
              ELSE IF ProductThrows(req.body)
              THEN req' = [req EXCEPT !.pc = "commit", !.fn = "returned",
                                      !.raised = @ \cup {"Product"},
                                      !.result = failError(AppError("VALIDATION_ERROR",
                                          <<"Datos del producto invalidos:">>
                                          \o ProductErrorMessage(req.body), 400))]
              ELSE req' = [req EXCEPT !.pc = "create", !.entity = <<Product(0, req.body)>>]
    /\ UNCHANGED <<env, transaction, resp, apiVars>>
    /\ UNCHANGED textVars
    /\ UNCHANGED filterVars
    /\ UNCHANGED uiVars
    /\ UNCHANGED containerVars

\* productRepository.create inside the try of the use case: whatever it
\* throws becomes a VALIDATION_ERROR failure
FnCreate ==
    /\ req.pc = "create"
    /\ LET entity == req.entity[1]
           row == [entity EXCEPT !.id = nextId]
       IN  \/ \E e \in DbFaults :
                 /\ req' = [req EXCEPT !.pc = "commit", !.fn = "returned",
                                       !.raised = @ \cup {"create"},
                                       !.result = failError(AppError("VALIDATION_ERROR",
                                           <<"Datos del producto invalidos:", "Error creando producto:">>
                                           \o e.message, 400))]
                 /\ UNCHANGED transaction
           \/ IF ModelValidationFails(entity)
              THEN /\ req' = [req EXCEPT !.pc = "commit", !.fn = "returned",
                                         !.raised = @ \cup {"validate"},
                                         !.result = failError(AppError("VALIDATION_ERROR",
                                             <<"Datos del producto invalidos:", "Errores de validacion:",
                                               "El precio debe ser mayor a 0">>, 400))]
                   /\ UNCHANGED transaction
              ELSE /\ req' = [req EXCEPT !.pc = "commit", !.fn = "returned", !.result = ok(row)]
                   /\ transaction' = [transaction EXCEPT !.pending = {row}]
    /\ UNCHANGED <<env, resp, apiVars>>
    /\ UNCHANGED textVars
    /\ UNCHANGED filterVars
    /\ UNCHANGED uiVars
    /\ UNCHANGED containerVars

\* GetProductUseCase: getAll and the check for an empty list
FnGetAll ==
    /\ req.pc = "fn"
    /\ req.method = "GET"
    /\ \/ \E e \in DbFaults :
             req' = [req EXCEPT !.pc = "catch", !.fn = "threw",
                                !.error = Error(<<"Error obteniendo productos:">> \o e.message),
                                !.raised = @ \cup {"getAll"}]
       \/ LET result == GetProductExecute(store)
          IN  req' = [req EXCEPT !.pc = "commit", !.fn = "returned",
                          !.result = IF result.isFailure
                                     THEN failError(AppError(result.error.code,
                                              <<"No se encontraron productos en el sistema">>,
                                              result.error.httpCode))
                                     ELSE result]
    /\ UNCHANGED <<env, transaction, resp, apiVars>>
    /\ UNCHANGED textVars
    /\ UNCHANGED filterVars
    /\ UNCHANGED uiVars
    /\ UNCHANGED containerVars

\* the response of the router to what productService returned
RouterAnswer(method, result) ==
    RouterResponse(IF method = "POST" THEN PostResponse(result) ELSE GetResponse(result), result)

\* A plausible slip: the commit stands after the try block, so its error
\* leaves run with no rollback.
TxCommit_outsideTry ==
    /\ req.pc = "commit"
    /\ \/ /\ transaction' = [transaction EXCEPT !.state = "committed", !.commits = @ + 1,
                                                 !.pending = {}]
          /\ store' = store \cup transaction.pending
          /\ nextId' = nextId + Cardinality(transaction.pending)
          /\ req' = [req EXCEPT !.pc = "done"]
          /\ resp' = RouterAnswer(req.method, req.result)
       \/ \E e \in DbFaults :
             /\ transaction' = [transaction EXCEPT !.commits = @ + 1]
             /\ req' = [req EXCEPT !.pc = "done", !.error = e, !.thrown = e,
                                   !.raised = @ \cup {"commit"}]
             /\ resp' = HandlerResponse(e, env)
             /\ UNCHANGED <<store, nextId>>
    /\ UNCHANGED <<env, created, clients, last>>
    /\ UNCHANGED textVars
    /\ UNCHANGED filterVars
    /\ UNCHANGED uiVars
    /\ UNCHANGED containerVars

\* await transaction.commit(), then return result; an error of commit is
\* caught like an error of the function
TxCommit ==
    /\ req.pc = "commit"
    /\ \/ /\ transaction' = [transaction EXCEPT !.state = "committed", !.commits = @ + 1,
                                                 !.pending = {}]
          /\ store' = store \cup transaction.pending
          /\ nextId' = nextId + Cardinality(transaction.pending)
          /\ req' = [req EXCEPT !.pc = "done"]
          /\ resp' = RouterAnswer(req.method, req.result)
       \/ \E e \in DbFaults :
             /\ transaction' = [transaction EXCEPT !.commits = @ + 1]
             /\ req' = [req EXCEPT !.pc = "catch", !.error = e,
                                   !.raised = @ \cup {"commit"}]
             /\ UNCHANGED <<store, nextId, resp>>
    /\ UNCHANGED <<env, created, clients, last>>
    /\ UNCHANGED textVars
    /\ UNCHANGED filterVars
    /\ UNCHANGED uiVars
    /\ UNCHANGED containerVars

\* A plausible slip: the catch of the rollback throws its own error.
RunThrows_rollbackError(error, rollbackError) ==
    IF rollbackError # NoError THEN rollbackError ELSE error

\* throw error, after the try around transaction.rollback()
RunThrows(error, rollbackError) == error

\* catch (error): await transaction.rollback(), whose own error is logged
\* and dropped; then the caught error leaves run and reaches the handler
TxRollback ==
    /\ req.pc = "catch"
    /\ \E rollbackError \in DbFaults \cup {NoError} :
          LET thrown == RunThrows(req.error, rollbackError)
          IN  /\ transaction' = [transaction EXCEPT
                     !.state = IF rollbackError = NoError THEN "rolledback" ELSE "rollbackFailed",
                     !.rollbacks = @ + 1,
                     !.pending = {}]
              /\ req' = [req EXCEPT !.pc = "done", !.thrown = thrown,
                                    !.raised = IF rollbackError = NoError THEN @ ELSE @ \cup {"rollback"}]
              /\ resp' = HandlerResponse(thrown, env)
    /\ UNCHANGED <<env, apiVars>>
    /\ UNCHANGED textVars
    /\ UNCHANGED filterVars
    /\ UNCHANGED uiVars
    /\ UNCHANGED containerVars

FaultNext ==
    \/ \E body \in Bodies : Receive("POST", body)
    \/ Receive("GET", Undef)
    \/ TxBegin
    \/ FnFindByName
    \/ FnCreate
    \/ FnGetAll
    \/ TxCommit
    \/ TxRollback

SpecFault == FaultInit /\ [][FaultNext]_vars

(***************************************************************************)
(* Claims about the Catalog API                                            *)
(***************************************************************************)
StoredNames(rows) == {r.name : r \in rows}

\* the request went past the router's presence check, into the create use case
HandedToUseCase(body) == ~MissingFields(body)

HasStringName(body) == body.name.t = "string"

\* C6: after any sequence and interleaving of create requests, two concurrent
\* ones that both passed the existence check included, the store never holds
\* two products with the same trimmed name.
C6_UniqueNames ==
    \A r, q \in store : trim(r.name) = trim(q.name) => r = q

\* two requests for one name both passed the existence check; one committed
\* and the other's INSERT ran into the unique index
C6_Witness ==
    /\ last.method = "POST"
    /\ last.insertCalled
    /\ last.status = 400
    /\ last.before = {}
    /\ last.body.name = Str(<<" ", "w", " ">>)
    /\ last.body.price = Num(9990)
    /\ <<"w">> \in StoredNames(store)

\* C7: a create request whose trimmed name is the name of an already stored
\* product fails with PRODUCT_ALREADY_EXISTS, HTTP 400, and leaves the store
\* unchanged: the repository insert is never invoked for it.  (A create
\* request is one handed to the create use case: it carries the three fields.)
C7_DuplicateRejected ==
    ( /\ last.method = "POST"
      /\ HandedToUseCase(last.body)
      /\ HasStringName(last.body)
      /\ trim(last.body.name.v) \in StoredNames(last.before) )
    => /\ last.status = 400
       /\ last.code = "PRODUCT_ALREADY_EXISTS"
       /\ ~last.insertCalled
       /\ last.wrote = {}

C7_Witness ==
    /\ last.method = "POST"
    /\ last.body = [name |-> Str(<<" ", "w", " ">>), price |-> Num(9990), stock |-> Num(20)]
    /\ <<"w">> \in StoredNames(last.before)
    /\ last.code = "PRODUCT_ALREADY_EXISTS"
    /\ store = last.before

InvalidPriceOrStock(body) ==
    \/ (body.price.t = "number" /\ body.price.v <= 0)
    \/ (body.stock.t = "number" /\ (body.stock.v < 0 \/ ~IsInteger(body.stock.v)))

\* C8 as stated, for the requests that carry the three fields and a string
\* name: a create request with price <= 0, or with a negative or non-integer
\* stock, fails with VALIDATION_ERROR, HTTP 400, and no row is inserted.
C8_InvalidIsValidationError ==
    ( /\ last.method = "POST"
      /\ HandedToUseCase(last.body)
      /\ HasStringName(last.body)
      /\ InvalidPriceOrStock(last.body) )
    => /\ last.status = 400
       /\ last.code = "VALIDATION_ERROR"
       /\ last.wrote = {}

\* C8 amended: such a request fails with HTTP 400 and no row is inserted (the
\* repository insert is not even invoked); its code is VALIDATION_ERROR when
\* the trimmed name is not stored yet, and PRODUCT_ALREADY_EXISTS when it is,
\* the existence check coming before the validation.
C8_InvalidRejected ==
    ( /\ last.method = "POST"
      /\ HandedToUseCase(last.body)
      /\ HasStringName(last.body)
      /\ InvalidPriceOrStock(last.body) )
    => /\ last.status = 400
       /\ last.code = IF trim(last.body.name.v) \in StoredNames(last.before)
                      THEN "PRODUCT_ALREADY_EXISTS"
                      ELSE "VALIDATION_ERROR"
       /\ ~last.insertCalled
       /\ last.wrote = {}

C8_Witness ==
    /\ last.method = "POST"
    /\ last.body = [name |-> Str(<<"v">>), price |-> Num(9990), stock |-> Num(1)]
    /\ last.before # {}
    /\ <<"v">> \notin StoredNames(last.before)
    /\ last.code = "VALIDATION_ERROR"
    /\ store = last.before

\* a body that satisfies the documented rules: a non-blank name, a price above
\* 0 with at most two decimals, a whole stock of at least 0
ValidBody(body) ==
    /\ body.name.t = "string" /\ trim(body.name.v) # <<>>
    /\ body.price.t = "number" /\ body.price.v > 0 /\ body.price.v % 10 = 0
    /\ body.stock.t = "number" /\ body.stock.v >= 0 /\ IsInteger(body.stock.v)

\* another request stored the name between this request's existence check and
\* its insert
Overtaken ==
    \E r \in store :
        /\ r.name = trim(last.body.name.v)
        /\ r \notin last.before
        /\ r \notin last.wrote

\* C9: end-to-end ordering.  (a) A valid POST of a name N the store lacks (and
\* that no other request stores meanwhile) is answered 201 with the product
\* under an id the store generated; (b) every GET processed after a product
\* was answered 201 lists that product; (c) every POST of the name of a
\* product stored before it is answered 400 PRODUCT_ALREADY_EXISTS.
C9_EndToEnd ==
    /\ ( /\ last.method = "POST"
         /\ ValidBody(last.body)
         /\ trim(last.body.name.v) \notin StoredNames(last.before)
         /\ ~Overtaken )
       => /\ last.status = 201
          /\ Len(last.value) = 1
          /\ last.value[1].name = trim(last.body.name.v)
          /\ last.value[1].id >= 1
          /\ last.value[1] \in store
          /\ last.value[1] \in created
          /\ \A r \in store : r.id = last.value[1].id => r = last.value[1]
    /\ last.method = "GET"
       => \A p \in last.answeredBefore :
              /\ last.status = 200
              /\ \E i \in 1..Len(last.value) : last.value[i] = p
    /\ ( /\ last.method = "POST"
         /\ HandedToUseCase(last.body)
         /\ HasStringName(last.body)
         /\ trim(last.body.name.v) \in StoredNames(last.answeredBefore) )
       => /\ last.status = 400
          /\ last.code = "PRODUCT_ALREADY_EXISTS"

\* the third exchange of POST w, GET, POST w
C9_Witness ==
    /\ last.method = "POST"
    /\ ValidBody(last.body)
    /\ last.body.name = Str(<<"w">>)
    /\ \E p \in last.answeredBefore : p.name = <<"w">> /\ p.id = 1
    /\ last.status = 400
    /\ last.code = "PRODUCT_ALREADY_EXISTS"

C27_OneCreatedOtherAlreadyExists ==
    /\ \A p, q \in created : p.name = q.name => p = q
    /\ ( /\ last.method = "POST"
         /\ ValidBody(last.body)
         /\ trim(last.body.name.v) \notin StoredNames(last.before) )
       => IF Overtaken
          THEN last.status = 400 /\ last.code = "PRODUCT_ALREADY_EXISTS"
          ELSE last.status = 201

\* C11: when the store holds at least one product, GET /products is answered
\* 200 with exactly the stored products, each exactly once, ordered by name
\* ascending.
C11_GetListsStoreByName ==
    (last.method = "GET" /\ last.before # {}) =>
        /\ last.status = 200
        /\ {last.value[i] : i \in 1..Len(last.value)} = last.before
        /\ Len(last.value) = Cardinality(last.before)
        /\ \A i \in 1..(Len(last.value) - 1) :
               /\ NameLeq(last.value[i].name, last.value[i + 1].name)
               /\ last.value[i].name # last.value[i + 1].name

\* w was stored before v, and the list has v first
C11_Witness ==
    /\ last.method = "GET"
    /\ last.status = 200
    /\ Len(last.value) = 2
    /\ last.value[1].name = <<"v">>
    /\ last.value[2].name = <<"w">>
    /\ last.value[1].id > last.value[2].id

(***************************************************************************)
(* Claims about error handling (SpecFault)                                 *)
(***************************************************************************)
Answered(method) == req.pc = "done" /\ req.method = method

ListedPostFailures ==
    { <<400, "MISSING_FIELDS">>, <<400, "PRODUCT_ALREADY_EXISTS">>,
      <<400, "VALIDATION_ERROR">>, <<500, "PRODUCT_NOT_CREATED">> }

CreatedResponse ==
    /\ resp.status = 201
    /\ Len(resp.value) = 1
    /\ resp.value[1] \in store
    /\ resp.value[1].name = trim(req.body.name.v)

LacksField(body) ==
    body.name.t = "undefined" \/ body.price.t = "undefined" \/ body.stock.t = "undefined"

\* C13: a POST /products whose body lacks any of name, price or stock is
\* answered 400 MISSING_FIELDS, and the create use case is not invoked: no
\* transaction is opened and the store is unchanged.
C13_MissingFieldsRejected ==
    (Answered("POST") /\ LacksField(req.body)) =>
        /\ resp.status = 400
        /\ resp.code = "MISSING_FIELDS"
        /\ transaction.begins = 0
        /\ req.fn = "none"
        /\ store = req.before

C13_Witness ==
    /\ Answered("POST")
    /\ req.body = [name |-> Str(<<"v">>), price |-> Undef, stock |-> Num(20)]
    /\ resp.code = "MISSING_FIELDS"
    /\ transaction = NoTransaction
    /\ store # {}
    /\ store = req.before

UnexpectedSites == {"transaction", "findByName", "create", "commit", "getAll"}

\* C14: any unexpected exception raised while a request is handled (a failure
\* of the existence check, of the insert, of the transaction wrapper) reaches
\* the catch-all middleware and is answered with HTTP 500 and the code
\* INTERNAL_ERROR.
C14_UnexpectedIsInternalError ==
    (req.pc = "done" /\ req.raised \cap UnexpectedSites # {}) =>
        /\ resp.via = "globalErrorHandler"
        /\ resp.status = 500
        /\ resp.code = "INTERNAL_ERROR"

\* C15: in production no error response carries a message with one of the
\* sensitive terms; where the underlying message has one, the generic message
\* is sent.  This covers the failures the router answers itself.
C15_NoSensitiveMessage ==
    (env = "production" /\ req.pc = "done" /\ resp.status >= 400) =>
        ~isSensitive(resp.message)

\* C16: run executes the function inside one transaction; when the function
\* returns, the transaction is committed (and what the function returned is
\* what run returns once the commit went through); when the function throws,
\* the transaction is rolled back and the error of the function, never the
\* error of the rollback, is thrown to the caller.
C16_CommitOrRollbackAndRethrow ==
    /\ transaction.begins <= 1
    /\ req.pc \in {"fn", "create", "commit", "catch"} => transaction.begins = 1
    /\ (req.pc = "done" /\ req.fn = "returned") =>
          /\ transaction.commits = 1
          /\ transaction.state = "committed" =>
                /\ transaction.rollbacks = 0
                /\ req.thrown = NoError
                /\ resp = RouterAnswer(req.method, req.result)
                /\ (~req.result.isFailure /\ req.method = "POST") => req.result.value \in store
    /\ (req.pc = "done" /\ req.fn = "threw") =>
          /\ transaction.commits = 0
          /\ transaction.rollbacks = 1
          /\ req.thrown = req.error
          /\ store = req.before

\* the function threw and the rollback failed too
C16_Witness ==
    /\ req.pc = "done"
    /\ req.fn = "threw"
    /\ transaction.state = "rollbackFailed"
    /\ req.raised = {"findByName", "rollback"}
    /\ req.thrown.name = "Error"
    /\ resp.via = "globalErrorHandler"

\* C17: every Product the constructor returns without throwing satisfies the
\* constraints of the data model: its price is the input rounded to two
\* decimals and is above 0, its stock is an integer of at least 0, and its name
\* is the trimmed input, not empty and at most 255 characters long.
C17_EntitySatisfiesConstraints ==
    req.pc = "create" =>
        LET entity == req.entity[1]
        IN  /\ entity.price = toFixed2(req.body.price.v)
            /\ entity.price > 0
            /\ IsInteger(entity.stock)
            /\ entity.stock >= 0
            /\ entity.name = trim(req.body.name.v)
            /\ entity.name # <<>>
            /\ Len(entity.name) <= MaxNameLength

\* a call to the database failed while the request was handled (the
\* TypeError of name.trim() inside findByName is no such failure)
DatabaseFaulted ==
    \/ req.raised \cap {"transaction", "create", "commit", "rollback", "getAll"} # {}
    \/ /\ "findByName" \in req.raised
       /\ req.error.message # <<"Error buscando producto por nombre:",
                               "name.trim is not a function">>

\* the code of the first check that fails, the checks taken in the order
\* presence, existence, validation (of the entity and of the row to insert);
\* "" when none fails
FirstFailingCheck(body, rows) ==
    IF MissingFields(body) THEN "MISSING_FIELDS"
    ELSE IF HasStringName(body) /\ trim(body.name.v) \in StoredNames(rows)
    THEN "PRODUCT_ALREADY_EXISTS"
    ELSE IF ProductThrows(body) THEN "VALIDATION_ERROR"
    ELSE IF ModelValidationFails(Product(0, body)) THEN "VALIDATION_ERROR"
    ELSE ""

\* C23: the checks of POST /products are applied in the order presence
\* (MISSING_FIELDS), existence (PRODUCT_ALREADY_EXISTS), entity validation
\* (VALIDATION_ERROR), insert result (PRODUCT_NOT_CREATED), and the first one
\* that fails determines the response; a request with a duplicate name and an
\* invalid price or stock is answered PRODUCT_ALREADY_EXISTS.  Stated for the
\* requests during which no call to the database failed.
C23_FirstFailingCheckAnswers ==
    (Answered("POST") /\ ~DatabaseFaulted) =>
        LET code == FirstFailingCheck(req.body, req.before)
        IN  IF code = "" THEN resp.status = 201
            ELSE resp.status = 400 /\ resp.code = code

\* C24: when the create operation ends in any error, thrown or returned as a
\* failure Result, its transaction is rolled back and not committed; the
\* transaction is committed only when the operation returns a success
\* Result.
C24_ErrorsAreRolledBack ==
    (Answered("POST") /\ transaction.state # "none") =>
        IF req.thrown # NoError \/ req.result.isFailure
        THEN /\ transaction.state \in {"rolledback", "rollbackFailed"}
             /\ transaction.rollbacks = 1
        ELSE transaction.state = "committed"

\* C28 as stated: every transaction opened by run is finished exactly once:
\* on every path (fn returns, fn throws, commit fails, rollback fails) exactly
\* one of commit or rollback is invoked, never both, never neither.
C28_ExactlyOneOfCommitOrRollback ==
    (req.pc = "done" /\ transaction.state # "none") =>
        transaction.commits + transaction.rollbacks = 1

\* C28, amended: on every transaction opened by run, commit or rollback is
\* invoked, each at most once and never neither: rollback alone when fn
\* throws, commit alone when fn returns and the commit goes through, and
\* commit followed by rollback when fn returns and the commit fails.
C28_CommitOrRollbackInvoked ==
    (req.pc = "done" /\ transaction.state # "none") =>
        /\ transaction.commits <= 1
        /\ transaction.rollbacks <= 1
        /\ transaction.commits + transaction.rollbacks >= 1
        /\ req.fn = "threw" => (transaction.commits = 0 /\ transaction.rollbacks = 1)
        /\ (req.fn = "returned" /\ "commit" \notin req.raised) =>
              (transaction.commits = 1 /\ transaction.rollbacks = 0)
        /\ (req.fn = "returned" /\ "commit" \in req.raised) =>
              (transaction.commits = 1 /\ transaction.rollbacks = 1)

\* the insert went through, the commit failed and the rollback after it
\* failed as well
C28_Witness ==
    /\ req.pc = "done"
    /\ req.method = "POST"
    /\ req.fn = "returned"
    /\ ~req.result.isFailure
    /\ req.raised = {"commit", "rollback"}
    /\ transaction.commits = 1
    /\ transaction.rollbacks = 1
    /\ transaction.state = "rollbackFailed"
    /\ store = req.before

(***************************************************************************)
(* Frontend: lib/api (getProducts, createProduct) and the create form of   *)
(* Header.  A product is its id and its name; an id is a number (the       *)
(* bundled dataset) or a string (the API).  A request to the API ends in a *)
(* network error or in a response with a status.                           *)
(***************************************************************************)

\* Number.prototype.toString / String.prototype.toString of an id
idToString(id) ==
    IF id.t = "string" THEN id.v
    ELSE CASE id.v = 1 -> "1" [] id.v = 2 -> "2" [] id.v = 3 -> "3"

\* axios: a response settles the promise as resolved for 2xx only
validateStatus(status) == status >= 200 /\ status < 300

NetworkError == [kind |-> "network", status |-> 0, data |-> <<>>]

Response(status, data) == [kind |-> "response", status |-> status, data |-> data]

\* the promise of api.get / api.post is rejected
Rejected(reply) == reply.kind = "network" \/ ~validateStatus(reply.status)

\* A plausible slip: no try/catch around the request.
getProducts_noCatch(reply, mock) ==
    IF Rejected(reply) THEN [settled |-> "rejected", value |-> <<>>]
    ELSE [settled |-> "resolved",
          value |-> reply.data \o SelectSeq(mock, LAMBDA mockProduct :
                        ~\E i \in 1..Len(reply.data) :
                            idToString(reply.data[i].id) = idToString(mockProduct.id))]

\* A plausible slip: the ids are compared without toString().
getProducts_strictIds(reply, mock) ==
    IF Rejected(reply) THEN [settled |-> "resolved", value |-> mock]
    ELSE [settled |-> "resolved",
          value |-> reply.data \o SelectSeq(mock, LAMBDA mockProduct :
                        ~\E i \in 1..Len(reply.data) : reply.data[i].id = mockProduct.id)]

\* getProducts: the promise it returns, given how the request ended
getProducts(reply, mock) ==
    LET hasApiData  == ~Rejected(reply)
        apiProducts == IF hasApiData THEN reply.data ELSE <<>>
        existsInApi(mockProduct) ==
            \E i \in 1..Len(apiProducts) :
                idToString(apiProducts[i].id) = idToString(mockProduct.id)
    IN  IF hasApiData
        THEN [settled |-> "resolved",
              value |-> apiProducts \o SelectSeq(mock, LAMBDA mockProduct : ~existsInApi(mockProduct))]
        ELSE [settled |-> "resolved", value |-> mock]

\* createProduct: the promise it returns; a failed request is answered with
\* the product as sent, under the id made up by crypto.randomUUID()
createProduct(productData, reply) ==
    LET productWithId == [id |-> Str("uuid"), name |-> productData.name]
    IN  IF Rejected(reply)
        THEN [settled |-> "resolved", value |-> productWithId]
        ELSE [settled |-> "resolved", value |-> reply.data]

(***************************************************************************)
(* SpecUi: the page loads the products, and the user works the create      *)
(* form, while each request to the API may succeed or fail.                *)
(***************************************************************************)
MockPool ==
    { [id |-> Num(1), name |-> "mock 1"],
      [id |-> Num(2), name |-> "mock 2"],
      [id |-> Num(3), name |-> "mock 3"] }

ApiPool ==
    { [id |-> Str("1"), name |-> "api 1"],
      [id |-> Str("u"), name |-> "api u"] }

UniqueIds(list) ==
    \A i, j \in 1..Len(list) : idToString(list[i].id) = idToString(list[j].id) => i = j

\* the tables the API can start with: rows have unique ids
ApiStores == {l \in SeqsUpTo(ApiPool, MaxListed) : UniqueIds(l)}

\* how GET /products can end while the API holds rows: no connection, an
\* error of the server, or its answer, 404 for no rows and else 200 with them
GetReplies(rows) ==
    {NetworkError, Response(500, <<>>)}
    \cup {IF rows = <<>> THEN Response(404, <<>>) ELSE Response(200, rows)}

PostStatuses == {201, 400, 500}

\* the API stores a product only under a name it does not hold yet
NameFree(name, rows) == \A i \in 1..Len(rows) : rows[i].name # name

\* useQuery({ queryFn, retry: 1 }): a rejected queryFn is called once more.
\* first and second are how the requests of the two calls would end.
useQuery(first, second, mock) ==
    LET attempt1 == getProducts(first, mock)
    IN  IF attempt1.settled = "rejected"
        THEN [promise |-> getProducts(second, mock), reply |-> second, requests |-> 2]
        ELSE [promise |-> attempt1, reply |-> first, requests |-> 1]

NoQueryData == [defined |-> FALSE, value |-> <<>>]

\* the products of the cached list that createProduct made up locally
Simulated(data) ==
    Cardinality({i \in 1..Len(data.value) : data.value[i].id = Str("uuid")})

\* onSuccess of useCreateProduct: setQueryData(lists, old => old ? [...old,
\* newProduct] : [newProduct])
setQueryData(old, newProduct) ==
    [defined |-> TRUE,
     value |-> IF old.defined THEN Append(old.value, newProduct) ELSE <<newProduct>>]

FieldValues ==
    [name |-> {"", "w"}, price |-> {"", "9.99"}, stock |-> {"", "10"}]

EmptyForm == [name |-> "", price |-> "", stock |-> ""]

NoNotice == [alert |-> "", toast |-> ""]

NotSubmitted == [form |-> EmptyForm, request |-> "none", product |-> <<>>]

UiInit ==
    /\ mockData \in SeqsUpTo(MockPool, MaxListed)
    /\ apiReply = [kind |-> "none", status |-> 0, data |-> <<>>]
    /\ fetched = [settled |-> "pending", value |-> <<>>]
    /\ formData = EmptyForm
    /\ isPopoverOpen = FALSE
    /\ notice = NoNotice
    /\ submitted = NotSubmitted
    /\ apiStore \in ApiStores
    /\ requests = 0
    /\ queryData = NoQueryData
    /\ TextIdle
    /\ FilterIdle
    /\ ApiIdle
    /\ FaultIdle
    /\ ContainerIdle

\* useProducts runs the query, queryFn: getProducts, when the page mounts and
\* again whenever the query is invalidated; data that arrives replaces the
\* cached list
FetchProducts ==
    /\ \E first \in GetReplies(apiStore), second \in GetReplies(apiStore) :
          LET query == useQuery(first, second, mockData)
          IN  /\ apiReply' = query.reply
              /\ fetched' = query.promise
              /\ requests' = query.requests
              /\ queryData' = IF query.promise.settled = "resolved"
                              THEN [defined |-> TRUE, value |-> query.promise.value]
                              ELSE queryData
    /\ UNCHANGED <<mockData, formData, isPopoverOpen, notice, submitted, apiStore>>
    /\ UNCHANGED <<textVars, filterVars, apiVars, faultVars, containerVars>>

\* Popover onOpenChange.  The user's next action dismisses what the last
\* handleSubmit showed.
SetIsPopoverOpen ==
    /\ isPopoverOpen' = ~isPopoverOpen
    /\ notice' = NoNotice
    /\ submitted' = NotSubmitted
    /\ UNCHANGED <<mockData, apiReply, fetched, formData, apiStore, requests, queryData>>
    /\ UNCHANGED <<textVars, filterVars, apiVars, faultVars, containerVars>>

handleInputChange(field, value) ==
    /\ isPopoverOpen
    /\ formData' = [formData EXCEPT ![field] = value]
    /\ notice' = NoNotice
    /\ submitted' = NotSubmitted
    /\ UNCHANGED <<mockData, apiReply, fetched, isPopoverOpen, apiStore, requests, queryData>>
    /\ UNCHANGED <<textVars, filterVars, apiVars, faultVars, containerVars>>

\* handleSubmit, the request of createProduct ending as reply; a 201 is the
\* API storing the product, which takes a free name.  onSuccess of the mutation adds the product to
\* the cached list and invalidates the query, which FetchProducts then runs
\* again.
handleSubmit(reply) ==
    /\ isPopoverOpen
    /\ (reply.kind = "response" /\ reply.status = 201) => NameFree(formData.name, apiStore)
    /\ Rejected(reply) => Simulated(queryData) < MaxSimulated
    /\ IF formData.name = "" \/ formData.price = ""
       THEN /\ notice' = [alert |-> "Por favor, completa al menos el nombre y precio del producto",
                          toast |-> ""]
            /\ submitted' = [form |-> formData, request |-> "none", product |-> <<>>]
            /\ UNCHANGED <<formData, isPopoverOpen, apiStore, queryData>>
       ELSE LET mutation == createProduct([name |-> formData.name], reply)
            IN  /\ apiStore' = IF reply.kind = "response" /\ reply.status = 201
                               THEN Append(apiStore, reply.data)
                               ELSE apiStore
                /\ IF mutation.settled = "resolved"
                   THEN /\ formData' = EmptyForm
                        /\ isPopoverOpen' = FALSE
                        /\ notice' = [alert |-> "", toast |-> "Producto creado exitosamente"]
                        /\ queryData' = setQueryData(queryData, mutation.value)
                        /\ submitted' = [form |-> formData,
                                         request |-> IF Rejected(reply) THEN "failed"
                                                     ELSE "succeeded",
                                         product |-> <<mutation.value>>]
                   ELSE /\ notice' = [alert |-> "Error al crear el producto", toast |-> ""]
                        /\ submitted' = [form |-> formData,
                                         request |-> IF Rejected(reply) THEN "failed"
                                                     ELSE "succeeded",
                                         product |-> <<>>]
                        /\ UNCHANGED <<formData, isPopoverOpen, queryData>>
    /\ UNCHANGED <<mockData, apiReply, fetched, requests>>
    /\ UNCHANGED <<textVars, filterVars, apiVars, faultVars, containerVars>>

handleCancel ==
    /\ isPopoverOpen
    /\ formData' = EmptyForm
    /\ isPopoverOpen' = FALSE
    /\ notice' = NoNotice
    /\ submitted' = NotSubmitted
    /\ UNCHANGED <<mockData, apiReply, fetched, apiStore, requests, queryData>>
    /\ UNCHANGED <<textVars, filterVars, apiVars, faultVars, containerVars>>

UiNext ==
    \/ FetchProducts
    \/ SetIsPopoverOpen
    \/ \E field \in {"name", "price", "stock"} :
          \E value \in FieldValues[field] : handleInputChange(field, value)
    \/ \E status \in PostStatuses :
          handleSubmit(Response(status, [id |-> Str("new"), name |-> formData.name]))
    \/ handleSubmit(NetworkError)
    \/ handleCancel

SpecUi == UiInit /\ [][UiNext]_vars

(***************************************************************************)
(* Claims about the frontend                                               *)
(***************************************************************************)
Loaded == fetched.settled # "pending"

IdStrings(list) == {idToString(list[i].id) : i \in 1..Len(list)}

\* C18: getProducts never rejects: when the request to the API fails (a
\* network error or any status outside 2xx, the 404 of an empty store
\* included), it resolves with exactly the bundled static dataset.
C18_FallsBackToMock ==
    Loaded =>
        /\ fetched.settled = "resolved"
        /\ (apiReply.kind = "network" \/ apiReply.status < 200 \/ apiReply.status >= 300)
              => fetched.value = mockData

C18_Witness ==
    /\ Loaded
    /\ apiReply.kind = "response"
    /\ apiReply.status = 404
    /\ Len(mockData) = 2
    /\ fetched.settled = "resolved"
    /\ fetched.value = mockData

\* C19: when the request succeeds, getProducts returns all API products
\* followed by exactly those products of the static dataset whose id, as a
\* string, is the id of no API product; so, the ids of each source being
\* unique, no id occurs twice in the result and an id of both sources is
\* represented by the API's entry.
C19_MergeByIdApiFirst ==
    (Loaded /\ apiReply.kind = "response" /\ apiReply.status = 200) =>
        LET api == apiReply.data
            out == fetched.value
            kept == SelectSeq(mockData, LAMBDA m : idToString(m.id) \notin IdStrings(api))
        IN  /\ out = api \o kept
            /\ (UniqueIds(api) /\ UniqueIds(mockData)) =>
                  /\ UniqueIds(out)
                  /\ \A i \in 1..Len(out) :
                        idToString(out[i].id) \in IdStrings(api) =>
                            \E k \in 1..Len(api) : out[i] = api[k]

\* the API answers the product with id "1", the dataset has the products 1 and 3
C19_Witness ==
    /\ Loaded
    /\ apiReply = Response(200, <<[id |-> Str("1"), name |-> "api 1"]>>)
    /\ mockData = <<[id |-> Num(1), name |-> "mock 1"], [id |-> Num(3), name |-> "mock 3"]>>
    /\ fetched.value = <<[id |-> Str("1"), name |-> "api 1"], [id |-> Num(3), name |-> "mock 3"]>>

\* C20: when the create request fails (a network error or a status outside
\* 2xx), the UI shows an error alert and no success notification, and the
\* form keeps the entered values: it is not cleared and the popover stays
\* open.
C20_FailureAlertsAndKeepsForm ==
    submitted.request = "failed" =>
        /\ notice.alert = "Error al crear el producto"
        /\ notice.toast = ""
        /\ formData = submitted.form
        /\ isPopoverOpen

(***************************************************************************)
(* useProductFilters: the filter state of the catalog page over the loaded *)
(* product list.  filteredProducts is a memo of filterAndSortProducts, so  *)
(* every setter ends in a render that computes it again; arrays of earlier *)
(* renders are garbage.                                                    *)
(***************************************************************************)
PRICE_RANGE_DEFAULT == <<PRICE_RANGE_MIN, PRICE_RANGE_MAX>>

SORT_OPTIONS_ASCENDING == TRUE

\* the three useState initial values
InitialFilters ==
    [searchTerm |-> <<>>, priceRange |-> PRICE_RANGE_DEFAULT, isAscending |-> SORT_OPTIONS_ASCENDING]

hasActiveFilters(f) ==
    \/ trim(f.searchTerm) # <<>>
    \/ f.priceRange[1] # PRICE_RANGE_MIN
    \/ f.priceRange[2] # PRICE_RANGE_MAX

\* the memo: the array filterAndSortProducts returns for the list and f
filteredProducts(list, f) ==
    LET r == filterAndSortProducts(<<list>>, 1, f)
    IN  r.heap[r.ref]

totalProducts == Len(heap[productsRef])

HookInit ==
    /\ \E list \in SeqsUpTo(ProductPool, MaxProducts) :
          /\ heap = <<list, filteredProducts(list, InitialFilters)>>
          /\ original = list
    /\ productsRef = 1
    /\ filters = InitialFilters
    /\ resultRef = 2
    /\ fphase = "mounted"
    /\ TextIdle
    /\ ApiIdle
    /\ FaultIdle
    /\ UiIdle
    /\ ContainerIdle

\* the render after a setter: filters is the new state
Render(f, phase) ==
    /\ filters' = f
    /\ heap' = <<heap[productsRef], filteredProducts(heap[productsRef], f)>>
    /\ fphase' = phase
    /\ UNCHANGED <<productsRef, original, resultRef>>
    /\ UNCHANGED textVars
    /\ UNCHANGED apiVars
    /\ UNCHANGED faultVars
    /\ UNCHANGED uiVars
    /\ UNCHANGED containerVars

updateSearchTerm(term) ==
    Render([filters EXCEPT !.searchTerm = term], "updated")

updatePriceRange(range) ==
    Render([filters EXCEPT !.priceRange = range], "updated")

updateSortOrder(ascending) ==
    Render([filters EXCEPT !.isAscending = ascending], "updated")

\* A plausible slip: the sort order is reset with the two filters.
clearFilters_resetSort ==
    Render(InitialFilters, "cleared")

clearFilters ==
    Render([filters EXCEPT !.searchTerm = <<>>, !.priceRange = PRICE_RANGE_DEFAULT], "cleared")

HookNext ==
    \/ \E term \in SearchTerms : updateSearchTerm(term)
    \/ \E lo \in SliderStops, hi \in SliderStops : lo <= hi /\ updatePriceRange(<<lo, hi>>)
    \/ \E ascending \in BOOLEAN : updateSortOrder(ascending)
    \/ clearFilters

SpecHook == HookInit /\ [][HookNext]_vars

\* C21 as stated: clearFilters returns the filter state to its initial value,
\* searchTerm '', priceRange [15, 65] and isAscending true.
C21_ClearRestoresInitial ==
    fphase = "cleared" => filters = InitialFilters

\* C21, amended: clearFilters sets searchTerm to '' and priceRange to
\* [15, 65], and leaves isAscending as it was.
C21_ClearResetsTermAndRange ==
    [][fphase' = "cleared" =>
          /\ filters'.searchTerm = <<>>
          /\ filters'.priceRange = PRICE_RANGE_DEFAULT
          /\ filters'.isAscending = filters.isAscending]_vars

\* cleared while the order was descending
C21_Witness ==
    /\ fphase = "cleared"
    /\ filters.searchTerm = <<>>
    /\ filters.priceRange = PRICE_RANGE_DEFAULT
    /\ ~filters.isAscending
    /\ Len(heap[resultRef]) = 2
    /\ heap[resultRef][1].price > heap[resultRef][2].price

\* C29: whenever hasActiveFilters is false (the initial state and the state
\* after clearFilters included), no product is hidden: filteredProducts
\* contains every input product and the filtered count equals totalProducts,
\* products priced outside [15, 65] included.
C29_InactiveFiltersHideNothing ==
    ~hasActiveFilters(filters) =>
        /\ Len(heap[resultRef]) = totalProducts
        /\ \A j \in 1..Len(original) :
              Occurrences(heap[resultRef], original[j]) = Occurrences(original, original[j])

\* C25: when the product-list request fails, the query layer of the client
\* retries it once, and only after the second failure is the bundled static
\* dataset used: a list that stands for a failed request was loaded with two
\* requests.
C25_MockAfterOneRetry ==
    (Loaded /\ Rejected(apiReply)) => requests = 2

\* C26: after the UI has reported a product as created, the product is part
\* of the product-list data, and it remains part of it after the cache
\* invalidation and the refetch, both when the API stored it and when the
\* creation was simulated locally.  (For a product the API stored, a refetch
\* that fails is left aside.)
C26_CreatedStaysListed ==
    ( /\ notice.toast = "Producto creado exitosamente"
      /\ submitted.product # <<>>
      /\ submitted.request = "succeeded" => ~Rejected(apiReply) )
    => /\ queryData.defined
       /\ \E i \in 1..Len(queryData.value) : queryData.value[i] = submitted.product[1]

(***************************************************************************)
(* The dependency injection container (awilix, InjectionMode.PROXY).  A    *)
(* class or factory receives the cradle and destructures it; reading a     *)
(* name off the cradle resolves that name, and a name that is not          *)
(* registered raises AwilixResolutionError, which leaves the outermost     *)
(* resolve.  A SINGLETON is built once and kept in the cache.              *)
(***************************************************************************)
RegisteredNames ==
    {"env", "sequelize", "productRepository", "unitOfWork", "createProductUseCase",
     "productService", "productRouter"}

\* how each name is registered, and the names its constructor or factory
\* destructures from the cradle, in order
Registration(name) ==
    CASE name = "createProductUseCase" ->
             [resolver |-> "asClass", injects |-> <<"productRepository", "unitOfWork">>]
      [] name = "productService" ->
             [resolver |-> "asClass", injects |-> <<"createProductUseCase", "getProductUseCase">>]
      [] name = "productRouter" ->
             [resolver |-> "asFunction", injects |-> <<"productService">>]
      [] OTHER -> [resolver |-> "asValue", injects |-> <<>>]

\* the names something may ask the container for
ResolvableNames == RegisteredNames \cup {"getProductUseCase"}

\* the name is at hand without building anything
Available(name) == Registration(name).resolver = "asValue" \/ name \in cache

ContainerInit ==
    /\ cache = {}
    /\ resolutionStack = <<>>
    /\ resolved = [name \in ResolvableNames |-> "unresolved"]
    /\ TextIdle
    /\ FilterIdle
    /\ ApiIdle
    /\ FaultIdle
    /\ UiIdle

\* container.resolve(name), as main does for productRouter
Resolve(name) ==
    /\ resolutionStack = <<>>
    /\ IF name \notin RegisteredNames
       THEN /\ resolved' = [resolved EXCEPT ![name] = "AwilixResolutionError"]
            /\ UNCHANGED resolutionStack
       ELSE IF Available(name)
       THEN /\ resolved' = [resolved EXCEPT ![name] = "ok"]
            /\ UNCHANGED resolutionStack
       ELSE /\ resolutionStack' = <<[name |-> name, next |-> 1]>>
            /\ UNCHANGED resolved
    /\ UNCHANGED cache
    /\ UNCHANGED <<textVars, filterVars, apiVars, faultVars, uiVars>>

\* the constructor or factory of the innermost registration reads its next
\* name off the cradle
Inject ==
    /\ resolutionStack # <<>>
    /\ LET depth == Len(resolutionStack)
           top == resolutionStack[depth]
           injects == Registration(top.name).injects
       IN  /\ top.next <= Len(injects)
           /\ IF injects[top.next] \notin RegisteredNames
              THEN /\ resolutionStack' = <<>>
                   /\ resolved' = [resolved EXCEPT ![resolutionStack[1].name] =
                                       "AwilixResolutionError"]
              ELSE IF Available(injects[top.next])
              THEN /\ resolutionStack' = [resolutionStack EXCEPT ![depth].next = @ + 1]
                   /\ UNCHANGED resolved
              ELSE /\ resolutionStack' = Append(resolutionStack,
                                                [name |-> injects[top.next], next |-> 1])
                   /\ UNCHANGED resolved
    /\ UNCHANGED cache
    /\ UNCHANGED <<textVars, filterVars, apiVars, faultVars, uiVars>>

\* the innermost constructor or factory returns: the instance is cached
\* (Lifetime.SINGLETON) and handed to whoever asked for it
Construct ==
    /\ resolutionStack # <<>>
    /\ LET depth == Len(resolutionStack)
           top == resolutionStack[depth]
       IN  /\ top.next > Len(Registration(top.name).injects)
           /\ cache' = cache \cup {top.name}
           /\ IF depth = 1
              THEN /\ resolutionStack' = <<>>
                   /\ resolved' = [resolved EXCEPT ![top.name] = "ok"]
              ELSE /\ resolutionStack' = [SubSeq(resolutionStack, 1, depth - 1)
                                             EXCEPT ![depth - 1].next = @ + 1]
                   /\ UNCHANGED resolved
    /\ UNCHANGED <<textVars, filterVars, apiVars, faultVars, uiVars>>

ContainerNext ==
    \/ \E name \in ResolvableNames : Resolve(name)
    \/ Inject
    \/ Construct

SpecContainer == ContainerInit /\ [][ContainerNext]_vars

\* every name a registration injects is registered
ContainerClosed ==
    \A name \in RegisteredNames :
        \A i \in 1..Len(Registration(name).injects) :
            Registration(name).injects[i] \in RegisteredNames

\* C30: the container is closed under dependencies (productService,
\* createProductUseCase, getProductUseCase, productRepository and unitOfWork
\* are all registered by buildContainer), so resolving productRouter at
\* start-up succeeds.
C30_RouterResolves ==
    resolved["productRouter"] # "unresolved" =>
        /\ ContainerClosed
        /\ resolved["productRouter"] = "ok"

====
